---- MODULE Spec2Model ----
(***************************************************************************)
(* Model of the Academic Integrity Analysis Engine of                      *)
(* academic-assignment-helper:                                             *)
(*   - calculatePlagiarismScore      (upload controller, DeepSeek edition) *)
(*   - generateSummary               (deepseekService.js and aiService.js) *)
(*   - the source-ranking loop of uploadAssignment and                     *)
(*     batchCosineSimilarity         (uploadController.js, services)       *)
(* Each component has its own specification (SpecScore, SpecSummary,       *)
(* SpecRank); the variables of the other components stay at their initial  *)
(* values.                                                                 *)
(***************************************************************************)
EXTENDS Integers, Sequences, FiniteSets, TLC

VARIABLES
    \* ---- heuristic scorer -------------------------------------------------
    textDefined,        \* FALSE: the argument `text` is undefined (not a string)
    doc,                \* the text: how many fragments of each kind it holds
    sc_pc,              \* "editing" | "scored"
    plagiarismResult,   \* what calculatePlagiarismScore returned
    plagiarismScore,    \* what the handler read as plagiarismResult.score
    \* ---- analysis synthesizer (generateSummary) ----------------------------
    service,            \* "deepseek" (deepseekService.js) | "openai" (aiService.js)
    apiKey,             \* TRUE: the service's API key is in the environment
    gs_text,            \* the argument `text` of generateSummary
    gs_pc,              \* "loading" | "ready" | "exited" | "awaiting" | "done"
    requests,           \* outbound requests to the model endpoint so far
    reply,              \* what the endpoint answered
    outcome,            \* how the call ended: a returned value or a raised error
    \* ---- source ranker -----------------------------------------------------
    rk_mode,            \* "upload" (loop of uploadAssignment) | "batch" (batchCosineSimilarity)
    rk_pc,              \* "idle" | "loop" | "done" | "raised"
    assignmentEmbedding,\* the embedding of the uploaded text
    corpus,             \* the rows of academic_sources, in the order read
    rk_i,               \* the row the loop is at
    similarities,       \* uploadAssignment: the matches collected, then sorted
    suggested,          \* similarities.slice(0, 5), as passed on and persisted
    scored,             \* ids of the rows whose similarity has been computed
    batchResult,        \* batchCosineSimilarity: the mapped array so far
    \* ---- cosineSimilarity called on its own ---------------------------------
    cs_pc,              \* "idle" | "called"
    cs_vecA,            \* the first argument
    cs_vecB,            \* the second argument
    cs_result,          \* the number returned, or that the call threw
    \* ---- getEmbedding -------------------------------------------------------
    em_service,         \* the service module the process loaded
    em_history,         \* the calls made so far: argument and outcome of each
    em_hash,            \* the value the local `hash` had when the last call ended
    \* ---- the scorer on a text and on the same text with one more indicator ---
    mono_added,         \* the kind of fragment that was added to the scored text
    mono_before,        \* what calculatePlagiarismScore returned before that
    \* ---- uploadAssignment (Supabase and n8n edition) -------------------------
    up_pc,              \* the step the handler is at
    up_input,           \* the request: the file, its text, the environment
    up_filePath,        \* TRUE once filePath has been assigned
    up_fileOnDisk,      \* the uploaded file exists in uploads/
    up_cleanups,        \* calls of cleanupFile(filePath) so far
    up_keyThemes,       \* analysisData.key_themes
    up_response,        \* the status of the response sent, 0 while none is
    assignmentsRow,     \* the row of assignments this request inserted exists
    analysisRow,        \* the row of analysis_results this request inserted
    up_events,          \* what the request has done so far, in order
    bg_pc,              \* the setImmediate callback: "none" | "scheduled" | "posting" | "done"
    \* ---- the routes that read and delete one assignment ---------------------
    db_rows,            \* assignments with their analysis_results row, by id
    db_nextId,          \* the next value of the serial id of assignments
    ac_before,          \* the row the last request named, when it arrived
    ac_last,            \* the last request, its response, and that row after it
    \* ---- N8NService.triggerFullWorkflow -------------------------------------
    n8_pc,              \* "new" | "idle" | "posting" | "updating" | "catch"
    n8_enabled,         \* this.enabled
    n8_calls,           \* calls of triggerFullWorkflow so far
    n8_status,          \* n8n_status of the analysis_results row
    n8_log,             \* what the current or last call did, in order
    n8_result           \* how the last call ended

scorerVars == <<textDefined, doc, sc_pc, plagiarismResult, plagiarismScore>>
summaryVars == <<service, apiKey, gs_text, gs_pc, requests, reply, outcome>>

rankVars == <<rk_mode, rk_pc, assignmentEmbedding, corpus, rk_i, similarities,
              suggested, scored, batchResult>>

cosineVars == <<cs_pc, cs_vecA, cs_vecB, cs_result>>

embedVars == <<em_service, em_history, em_hash>>

monoVars == <<mono_added, mono_before>>

uploadVars == <<up_pc, up_input, up_filePath, up_fileOnDisk, up_cleanups,
                up_keyThemes, up_response, assignmentsRow, analysisRow, up_events,
                bg_pc>>

accessVars == <<db_rows, db_nextId, ac_before, ac_last>>

n8nVars == <<n8_pc, n8_enabled, n8_calls, n8_status, n8_log, n8_result>>

vars == <<scorerVars, summaryVars, rankVars, cosineVars, embedVars, monoVars,
          uploadVars, accessVars, n8nVars>>

(***************************************************************************)
(* JavaScript values the model needs to tell apart.                        *)
(***************************************************************************)
JsNumber(n) == [t |-> "number", v |-> n]
JsUndefined == [t |-> "undefined", v |-> 0]

SumOver(S, f(_)) ==
    LET RECURSIVE Go(_)
        Go(T) == IF T = {} THEN 0
                 ELSE LET x == CHOOSE y \in T : TRUE IN f(x) + Go(T \ {x})
    IN Go(S)

Min(a, b) == IF a < b THEN a ELSE b

(***************************************************************************)
(* THE TEXT.  A text is the title line "Essay." followed by fragments, each *)
(* on a line of its own ("\n" + fragment).  The scorer reads the text only *)
(* through regular-expression matches, whitespace tokens, sentence pieces  *)
(* and lines, so a text is represented by the number of fragments of every *)
(* kind, and each kind is described by what those readings find in it.     *)
(*                                                                         *)
(*   kind        fragment text                                             *)
(*   copyright   Copyright (c)-sign 2020.                                  *)
(*   allrights   All rights reserved.                                      *)
(*   published   Published by Acme.                                        *)
(*   journal     Journal of Science.                                       *)
(*   volume      Volume 12, issue 3.                                       *)
(*   doi         doi: 10.1/x.                                              *)
(*   retrieved   Retrieved from http://a.io.                               *)
(*   isbn        ISBN 12345.                                               *)
(*   citation    (Smith, 2020).                                            *)
(*   bracket     [1].                                                      *)
(*   etal        et al.                                                    *)
(*   page        pp. 23.                                                   *)
(*   according   According to Smith.                                       *)
(*   ascited     as cited in.                                              *)
(*   cf          cf. x.                                                    *)
(*   url         http://a.io.                                              *)
(*   phrase      in conclusion.                                            *)
(*   boiler8     "in conclusion" eight times, then a full stop             *)
(*   sent4       alpha alpha alpha alpha.            (23 characters)       *)
(*   sent48      "alpha" 48 times, then a full stop  (288 characters)      *)
(*   sent49      "alpha" 49 times, then a full stop  (294 characters)      *)
(*   sent70      "alpha" 70 times, then a full stop  (420 characters)      *)
(*   para5       five lines, each "alpha alpha alpha alpha."                *)
(*   long5       five lines, each "alpha" 25 times and a full stop         *)
(*   mixed5      four lines "alpha alpha alpha alpha." and one line of     *)
(*               "alpha" 70 times and a full stop                          *)
(***************************************************************************)
DefiniteFrags == {"copyright", "allrights", "published", "journal",
                  "volume", "doi", "retrieved", "isbn"}
SuspiciousFrags == {"citation", "bracket", "etal", "page", "according",
                    "ascited", "cf"}
PlainFrags == {"sent4", "sent48", "sent49", "sent70", "para5", "long5", "mixed5"}
FragKinds == DefiniteFrags \cup SuspiciousFrags \cup {"url", "phrase", "boiler8"}
             \cup PlainFrags

\* lowerText.split(/\s+/).filter(word => word.length > 3).length, per fragment
SigWords(k) ==
    CASE k \in {"copyright", "allrights", "published", "journal", "volume",
                "doi", "isbn", "citation", "according"} -> 2
      [] k = "retrieved" -> 3
      [] k \in {"bracket", "ascited", "url", "phrase"} -> 1
      [] k \in {"etal", "page", "cf"} -> 0
      [] k = "boiler8" -> 8
      [] k = "sent4" -> 4
      [] k = "sent48" -> 48
      [] k = "sent49" -> 49
      [] k = "sent70" -> 70
      [] k = "para5" -> 20
      [] k = "long5" -> 125
      [] k = "mixed5" -> 86

\* The pieces of text.split(/[.!?]+/) with s.trim().length > 20 that the
\* fragment adds, each given as s.split(/\s+/).length (every piece starts with
\* the line break or blank that follows the preceding full stop, which adds
\* one empty first element).
Sentences(k) ==
    CASE k = "retrieved" -> <<4>>          \* "\nRetrieved from http://a"
      [] k = "boiler8" -> <<17>>
      [] k = "sent4" -> <<5>>
      [] k = "sent48" -> <<49>>
      [] k = "sent49" -> <<50>>
      [] k = "sent70" -> <<71>>
      [] k = "para5" -> <<5, 5, 5, 5, 5>>
      [] k = "long5" -> <<26, 26, 26, 26, 26>>
      [] k = "mixed5" -> <<5, 5, 5, 5, 71>>
      [] OTHER -> <<>>

\* lines with line.length > 120 && line.trim().length > 0
LongLinesIn(k) ==
    CASE k \in {"sent48", "sent49", "sent70", "mixed5"} -> 1
      [] k = "long5" -> 5
      [] OTHER -> 0

\* lowerText.match(/https?:\/\/[^\s]+/g) in one fragment
UrlsIn(k) == IF k \in {"url", "retrieved"} THEN 1 ELSE 0

\* matches of all academicPhrases in one fragment
PhrasesIn(k) == CASE k = "phrase" -> 1 [] k = "boiler8" -> 8 [] OTHER -> 0

\* lowerText.match(pattern) for the pattern called `name`: every definite and
\* suspicious pattern matches exactly once in the fragment of its own name.
MatchesIn(name, k) == IF k = name THEN 1 ELSE 0

\* text.length, per fragment (the line break before it included)
Chars(k) ==
    CASE k = "copyright" -> 18 [] k = "allrights" -> 21 [] k = "published" -> 19
      [] k = "journal" -> 20   [] k = "volume" -> 20    [] k = "doi" -> 13
      [] k = "retrieved" -> 28 [] k = "isbn" -> 12      [] k = "citation" -> 15
      [] k = "bracket" -> 5    [] k = "etal" -> 7       [] k = "page" -> 8
      [] k = "according" -> 20 [] k = "ascited" -> 13   [] k = "cf" -> 7
      [] k = "url" -> 13       [] k = "phrase" -> 15    [] k = "boiler8" -> 113
      [] k = "sent4" -> 25     [] k = "sent48" -> 289   [] k = "sent49" -> 295
      [] k = "sent70" -> 421   [] k = "para5" -> 125    [] k = "long5" -> 755
      [] k = "mixed5" -> 521

EmptyDoc == [k \in FragKinds |-> 0]
TitleWords == 1     \* "essay." is one word longer than 3 characters
TitleChars == 6

TextLength(d) == TitleChars + SumOver(FragKinds, LAMBDA k : d[k] * Chars(k))

Matches(d, name) == SumOver(FragKinds, LAMBDA k : d[k] * MatchesIn(name, k))
WordCount(d) == TitleWords + SumOver(FragKinds, LAMBDA k : d[k] * SigWords(k))
Urls(d) == SumOver(FragKinds, LAMBDA k : d[k] * UrlsIn(k))
PhraseCount(d) == SumOver(FragKinds, LAMBDA k : d[k] * PhrasesIn(k))
LongLines(d) == SumOver(FragKinds, LAMBDA k : d[k] * LongLinesIn(k))
SentenceCount(d) == SumOver(FragKinds, LAMBDA k : d[k] * Len(Sentences(k)))
SeqSum(s) == SumOver(DOMAIN s, LAMBDA i : s[i])
SeqSumSq(s) == SumOver(DOMAIN s, LAMBDA i : s[i] * s[i])
SentenceLenSum(d) == SumOver(FragKinds, LAMBDA k : d[k] * SeqSum(Sentences(k)))
SentenceLenSumSq(d) == SumOver(FragKinds, LAMBDA k : d[k] * SeqSumSq(Sentences(k)))

(***************************************************************************)
(* calculatePlagiarismScore                                                *)
(***************************************************************************)
MinSignificantWords == 50
ScoreCap == 95
UrlWeight == 15
VarianceThreshold == 500
VarianceWeight == 15
MinSentences == 5
PhraseThreshold == 8
PhraseCap == 20
LongLineThreshold == 5
LongLineWeight == 10

definiteIndicators ==
    << [name |-> "copyright", weight |-> 40, description |-> "Copyright notice"],
       [name |-> "allrights", weight |-> 35, description |-> "All rights reserved"],
       [name |-> "published", weight |-> 30, description |-> "Published in/by statement"],
       [name |-> "journal",   weight |-> 25, description |-> "Journal reference"],
       [name |-> "volume",    weight |-> 25, description |-> "Volume/issue reference"],
       [name |-> "doi",       weight |-> 20, description |-> "DOI reference"],
       [name |-> "retrieved", weight |-> 30, description |-> "Retrieved from URL"],
       [name |-> "isbn",      weight |-> 20, description |-> "ISBN reference"] >>

suspiciousPatterns ==
    << [name |-> "citation",  weight |-> 3],
       [name |-> "bracket",   weight |-> 2],
       [name |-> "etal",      weight |-> 5],
       [name |-> "page",      weight |-> 4],
       [name |-> "according", weight |-> 3],
       [name |-> "ascited",   weight |-> 4],
       [name |-> "cf",        weight |-> 3] >>

DefiniteScorePerMatch(d) ==
    SumOver(DOMAIN definiteIndicators,
            LAMBDA i : Matches(d, definiteIndicators[i].name)
                       * definiteIndicators[i].weight)

DefiniteScoreFirstOnly(d) ==
    IF Matches(d, definiteIndicators[1].name) > 0
    THEN definiteIndicators[1].weight ELSE 0

\* 1. definiteIndicators.forEach: the weight once when the pattern matches
DefiniteScore(d) ==
    SumOver(DOMAIN definiteIndicators,
            LAMBDA i : IF Matches(d, definiteIndicators[i].name) > 0
                       THEN definiteIndicators[i].weight ELSE 0)

\* 2. suspiciousPatterns.forEach: matches.length * weight
SuspiciousScore(d) ==
    SumOver(DOMAIN suspiciousPatterns,
            LAMBDA i : Matches(d, suspiciousPatterns[i].name)
                       * suspiciousPatterns[i].weight)

SuspiciousCount(d) ==
    SumOver(DOMAIN suspiciousPatterns,
            LAMBDA i : Matches(d, suspiciousPatterns[i].name))

\* 3. urls.length * 15
UrlScore(d) == Urls(d) * UrlWeight

\* 4. variance of the sentence lengths, when there are more than 5 sentences.
\* variance = sum((len - avg)^2) / n  >  500   is, in exact arithmetic,
\* n * sum(len^2) - sum(len)^2  >  500 * n^2.
VarianceScore(d) ==
    LET n == SentenceCount(d)
        s == SentenceLenSum(d)
        q == SentenceLenSumSq(d)
    IN IF n > MinSentences /\ n * q - s * s > VarianceThreshold * n * n
       THEN VarianceWeight ELSE 0

\* 5. phraseCount > 8 adds Math.min(phraseCount * 2, 20)
PhraseScore(d) ==
    IF PhraseCount(d) > PhraseThreshold
    THEN Min(PhraseCount(d) * 2, PhraseCap) ELSE 0

\* 6. more than 5 long lines add 10
FormatScore(d) ==
    IF LongLines(d) > LongLineThreshold THEN LongLineWeight ELSE 0

RawScore(d) ==
    DefiniteScore(d) + SuspiciousScore(d) + UrlScore(d) + VarianceScore(d)
    + PhraseScore(d) + FormatScore(d)

FinalScoreUncapped(score) == score

\* const finalScore = Math.min(score, 95)
FinalScore(score) == Min(score, ScoreCap)

Report(score, indicators, suspiciousCount, urlsFound, phraseCount) ==
    [kind |-> "report", score |-> score, indicators |-> indicators,
     suspiciousCount |-> suspiciousCount, urlsFound |-> urlsFound,
     phraseCount |-> phraseCount]

\* `return 0` of the guard on the word count: a bare number, not a report
\* (score holds the number itself; a number has no property of that name)
ShortTextResult == [kind |-> "number", score |-> 0, indicators |-> {},
                    suspiciousCount |-> 0, urlsFound |-> 0, phraseCount |-> 0]

\* the catch block: text.toLowerCase() throws on a text that is no string
ErrorReport == Report(0, {}, 0, 0, 0)

calculatePlagiarismScore(defined, d) ==
    IF ~defined THEN ErrorReport
    ELSE IF WordCount(d) < MinSignificantWords THEN ShortTextResult
    ELSE Report(FinalScore(RawScore(d)),
                {definiteIndicators[i].description :
                    i \in {j \in DOMAIN definiteIndicators :
                             Matches(d, definiteIndicators[j].name) > 0}},
                SuspiciousCount(d), Urls(d), PhraseCount(d))

\* plagiarismResult.score as JavaScript evaluates it: a property read on a
\* number yields undefined.
ReadScore(result) ==
    IF result.kind = "report" THEN JsNumber(result.score) ELSE JsUndefined

MaxFragments == 4
MinTextLength == 50

NoResult == [kind |-> "none", score |-> 0, indicators |-> {},
             suspiciousCount |-> 0, urlsFound |-> 0, phraseCount |-> 0]

ScorerInit ==
    /\ textDefined = TRUE
    /\ doc = EmptyDoc
    /\ sc_pc = "editing"
    /\ plagiarismResult = NoResult
    /\ plagiarismScore = JsUndefined

\* the text that reaches the scorer grows by one fragment
AppendFragment ==
    /\ sc_pc = "editing"
    /\ textDefined
    /\ SumOver(FragKinds, LAMBDA f : doc[f]) < MaxFragments
    /\ \E k \in FragKinds : doc' = [doc EXCEPT ![k] = @ + 1]
    /\ UNCHANGED <<textDefined, sc_pc, plagiarismResult, plagiarismScore>>
    /\ UNCHANGED <<summaryVars, rankVars, cosineVars, embedVars, monoVars, uploadVars, accessVars, n8nVars>>

\* uploadAssignment: a text of fewer than 50 characters is answered with 400
\* before step 3; otherwise step 3 scores the text and reads the score
ScoreText ==
    /\ sc_pc = "editing"
    /\ textDefined
    /\ TextLength(doc) >= MinTextLength
    /\ plagiarismResult' = calculatePlagiarismScore(textDefined, doc)
    /\ plagiarismScore' = ReadScore(plagiarismResult')
    /\ sc_pc' = "scored"
    /\ UNCHANGED <<textDefined, doc>>
    /\ UNCHANGED <<summaryVars, rankVars, cosineVars, embedVars, monoVars, uploadVars, accessVars, n8nVars>>

\* calculatePlagiarismScore called with a value that is no string
ScoreNonString ==
    /\ sc_pc = "editing"
    /\ doc = EmptyDoc
    /\ textDefined' = FALSE
    /\ plagiarismResult' = calculatePlagiarismScore(FALSE, doc)
    /\ plagiarismScore' = ReadScore(plagiarismResult')
    /\ sc_pc' = "scored"
    /\ UNCHANGED doc
    /\ UNCHANGED <<summaryVars, rankVars, cosineVars, embedVars, monoVars, uploadVars, accessVars, n8nVars>>

ScorerNext ==
    \/ AppendFragment
    \/ ScoreText
    \/ ScoreNonString


(***************************************************************************)
(* generateSummary (deepseekService.js and aiService.js)                   *)
(***************************************************************************)
MinSummaryLength == 50
WordLevelThreshold == 2000

\* JSON / JavaScript values of result fields
Str(x) == [t |-> "string", s |-> x, n |-> 0]
Arr(tag, size) == [t |-> "array", s |-> tag, n |-> size]
Num(x) == [t |-> "number", s |-> "", n |-> x]
\* !value is false: every array is truthy, the empty string and 0 are not
Truthy(v) == ~((v.t = "string" /\ v.s = "") \/ (v.t = "number" /\ v.n = 0))

\* The argument `text`: whether it is a string at all, text.trim().length and
\* text.split(/\s+/).length.
GsTexts ==
    { [defined |-> FALSE, trimLen |-> 0,     words |-> 0],      \* undefined
      [defined |-> TRUE,  trimLen |-> 0,     words |-> 1],      \* ""
      [defined |-> TRUE,  trimLen |-> 49,    words |-> 9],
      [defined |-> TRUE,  trimLen |-> 50,    words |-> 9],
      [defined |-> TRUE,  trimLen |-> 12000, words |-> 2000],
      [defined |-> TRUE,  trimLen |-> 12006, words |-> 2001] }

NoText == [defined |-> FALSE, trimLen |-> 0, words |-> 0]

\* createFallbackAnalysis(text) of the two services (confidence_score in
\* hundredths)
createFallbackAnalysis(svc, text) ==
    LET level == IF text.words > WordLevelThreshold
                 THEN Str("Undergraduate") ELSE Str("High School")
    IN IF svc = "deepseek"
       THEN [topic |-> Str("Academic Assignment"),
             academic_level |-> level,
             key_themes |-> Arr("fallback", 3),
             research_suggestions |-> Str("Consider expanding your research"),
             citation_recommendations |-> Str("APA, MLA, Chicago"),
             writing_quality |-> Str("Good"),
             strengths |-> Arr("fallback", 2),
             improvement_areas |-> Arr("fallback", 2),
             confidence_score |-> Num(60)]
       ELSE [topic |-> Str("General Academic Assignment"),
             academic_level |-> level,
             key_themes |-> Arr("fallback", 3),
             research_suggestions |-> Str("Consider expanding your research"),
             citation_recommendations |-> Str("APA, MLA, Chicago"),
             flagged_sections |-> Arr("fallback", 0),
             confidence_score |-> Num(50)]

requiredFieldsTopicOnly == {"topic"}

\* const requiredFields = [...]
requiredFields == {"topic", "academic_level", "key_themes", "research_suggestions"}

\* What the model can put into message.content.  An object is a function from
\* the keys it has to their values; values written by the model carry "model".
ModelValues(f) ==
    IF f = "key_themes" THEN {Arr("model", 0), Arr("model", 3)}
    ELSE {Str(""), Str("model")}

FieldVariants(f) == {<<>>} \cup {[k \in {f} |-> v] : v \in ModelValues(f)}

ModelObjects ==
    { a @@ b @@ c @@ d @@ e :
        a \in FieldVariants("topic"),
        b \in FieldVariants("academic_level"),
        c \in FieldVariants("key_themes"),
        d \in FieldVariants("research_suggestions"),
        e \in {<<>>, [k \in {"writing_quality"} |-> Str("model")]} }

Contents ==
    {[json |-> j, obj |-> <<>>] : j \in {"invalid", "null", "scalar"}}
    \cup {[json |-> "object", obj |-> o] : o \in ModelObjects}

\* Ways the outbound call fails, and the error.code the OpenAI client gives
\* the error it throws ("" when the error has no code)
Failures == {"quota", "billing", "auth", "rate_limit", "timeout", "status_500"}

ErrorCode(failure) ==
    CASE failure = "quota" -> "insufficient_quota"
      [] failure = "billing" -> "billing_not_active"
      [] failure = "auth" -> "invalid_api_key"
      [] failure = "rate_limit" -> "rate_limit_exceeded"
      [] OTHER -> ""

\* kind "failed": fetch rejected or answered a status that is not ok / the
\* OpenAI client threw; "malformed": a 2xx body without choices[0].message;
\* "content": a 2xx body whose message.content is `content`.
Replies ==
    {[kind |-> "failed", failure |-> f, content |-> [json |-> "invalid", obj |-> <<>>]]
        : f \in Failures}
    \cup {[kind |-> "malformed", failure |-> "", content |-> [json |-> "invalid", obj |-> <<>>]]}
    \cup {[kind |-> "content", failure |-> "", content |-> c] : c \in Contents}

NoReply == [kind |-> "none", failure |-> "", content |-> [json |-> "invalid", obj |-> <<>>]]

Returned(value) == [kind |-> "returned", value |-> value, error |-> ""]
Raised(message) == [kind |-> "raised", value |-> <<>>, error |-> message]
NoOutcome == [kind |-> "none", value |-> <<>>, error |-> ""]

rethrownCodesAsInGetEmbedding ==
    {"insufficient_quota", "invalid_api_key", "rate_limit_exceeded"}

\* aiService.js: error.code === 'insufficient_quota' || 'billing_not_active'
rethrownCodes == {"insufficient_quota", "billing_not_active"}

\* The outer catch block.  createFallbackAnalysis calls text.split, a
\* TypeError when text is undefined, and nothing catches that one.
Catch(svc, text, code) ==
    IF svc = "openai" /\ code \in rethrownCodes
    THEN Raised("OpenAI service unavailable. Please check your API account.")
    ELSE IF ~text.defined THEN Raised("TypeError: Cannot read properties of undefined")
    ELSE Returned(createFallbackAnalysis(svc, text))

ParseWithoutValidation(svc, text, content) ==
    IF content.json = "object"
    THEN Returned(content.obj)
    ELSE Returned(createFallbackAnalysis(svc, text))

\* the inner try: JSON.parse, the required fields, `return analysis`; its
\* catch returns the fallback (analysis[field] on null throws inside the try)
ParseAndValidate(svc, text, content) ==
    IF /\ content.json = "object"
       /\ \A f \in requiredFields :
             f \in DOMAIN content.obj /\ Truthy(content.obj[f])
    THEN Returned(content.obj)
    ELSE Returned(createFallbackAnalysis(svc, text))

\* !text || text.trim().length < 50
TooShort(text) == ~text.defined \/ text.trimLen < MinSummaryLength

keyCheckAbsent(svc, key) == FALSE

\* deepseekService.js: if (!process.env.DEEPSEEK_API_KEY) return fallback
keyMissing(svc, key) == svc = "deepseek" /\ ~key

SummaryInit ==
    /\ service = "none"
    /\ apiKey = FALSE
    /\ gs_text = NoText
    /\ gs_pc = "loading"
    /\ requests = 0
    /\ reply = NoReply
    /\ outcome = NoOutcome

\* require() of the service module: aiService.js exits the process when
\* OPENAI_API_KEY is missing, deepseekService.js only warns
LoadModule(svc, key) ==
    /\ gs_pc = "loading"
    /\ service' = svc
    /\ apiKey' = key
    /\ gs_pc' = IF svc = "openai" /\ ~key THEN "exited" ELSE "ready"
    /\ UNCHANGED <<gs_text, requests, reply, outcome>>
    /\ UNCHANGED <<scorerVars, rankVars, cosineVars, embedVars, monoVars, uploadVars, accessVars, n8nVars>>

\* generateSummary(text, sources) up to its await, or to its end when it
\* does not get that far
GenerateSummaryCall(text) ==
    /\ gs_pc = "ready"
    /\ gs_text' = text
    /\ IF TooShort(text)
       THEN /\ outcome' = Catch(service, text, "")
            /\ gs_pc' = "done"
            /\ UNCHANGED requests
       ELSE IF keyMissing(service, apiKey)
       THEN /\ outcome' = Returned(createFallbackAnalysis(service, text))
            /\ gs_pc' = "done"
            /\ UNCHANGED requests
       ELSE /\ requests' = requests + 1
            /\ gs_pc' = "awaiting"
            /\ UNCHANGED outcome
    /\ UNCHANGED <<service, apiKey, reply>>
    /\ UNCHANGED <<scorerVars, rankVars, cosineVars, embedVars, monoVars, uploadVars, accessVars, n8nVars>>

\* the await resumes with the endpoint's answer; the rest of generateSummary
ModelReplies ==
    /\ gs_pc = "awaiting"
    /\ \E r \in Replies :
          /\ reply' = r
          /\ outcome' =
                CASE r.kind = "failed" -> Catch(service, gs_text, ErrorCode(r.failure))
                  [] r.kind = "malformed" -> Catch(service, gs_text, "")
                  [] r.kind = "content" -> ParseAndValidate(service, gs_text, r.content)
    /\ gs_pc' = "done"
    /\ UNCHANGED <<service, apiKey, gs_text, requests>>
    /\ UNCHANGED <<scorerVars, rankVars, cosineVars, embedVars, monoVars, uploadVars, accessVars, n8nVars>>

maxRetries == 2

HasTimeoutEitherService(svc) == TRUE

\* new OpenAI({ timeout: 30000, maxRetries: 2 }); the fetch call of
\* deepseekService.js is given neither a timeout nor an abort signal
HasTimeout(svc) == svc = "openai"

\* the 30 seconds of an attempt pass without an answer: the client sends the
\* request again while it has retries left, and throws a timeout error (one
\* without a code) after the last attempt
AttemptTimesOut ==
    /\ gs_pc = "awaiting"
    /\ HasTimeout(service)
    /\ IF requests <= maxRetries
       THEN /\ requests' = requests + 1
            /\ UNCHANGED <<gs_pc, outcome>>
       ELSE /\ outcome' = Catch(service, gs_text, "")
            /\ gs_pc' = "done"
            /\ UNCHANGED requests
    /\ UNCHANGED <<service, apiKey, gs_text, reply>>
    /\ UNCHANGED <<scorerVars, rankVars, cosineVars, embedVars, monoVars, uploadVars, accessVars, n8nVars>>

SummaryNext ==
    \/ \E svc \in {"deepseek", "openai"}, key \in BOOLEAN : LoadModule(svc, key)
    \/ \E text \in GsTexts : GenerateSummaryCall(text)
    \/ ModelReplies
    \/ AttemptTimesOut

(***************************************************************************)
(* SOURCE RANKER: cosineSimilarity, the ranking loop of uploadAssignment   *)
(* (uploadController.js) and batchCosineSimilarity.                        *)
(*                                                                         *)
(* Numbers.  Vectors have integer components (cosine similarity does not   *)
(* change when a vector is scaled) and are chosen with an integer norm, so *)
(* Math.sqrt is exact and the similarity is the rational num/den.          *)
(* Rounded values, toFixed(4), are counted in units of 0.0001.             *)
(***************************************************************************)
SimilarityThreshold == 7500     \* 0.75 in units of 0.0001
MaxSuggested == 5
MaxCorpus == 3

\* Math.sqrt(n) for a perfect square n
Sqrt(n) ==
    LET RECURSIVE Between(_, _)
        Between(lo, hi) ==
            IF lo = hi THEN lo
            ELSE LET mid == (lo + hi + 1) \div 2
                 IN IF mid * mid <= n THEN Between(mid, hi) ELSE Between(lo, mid - 1)
    IN Between(0, Min(n, 46340))

\* A stored embedding column: the JSON text and what JSON.parse makes of it.
\* elems tells the type of the array's elements: "number", "string" (not
\* numeric: Number(x) is NaN) or "boolean" (v holds 1 for true, 0 for false).
Embedding(json, elems, v) == [json |-> json, elems |-> elems, v |-> v]

WellFormedEmbeddings ==
    { Embedding("array", "number", <<4, 3, 0, 0, 0>>),
      Embedding("array", "number", <<8, 6, 0, 0, 0>>),
      Embedding("array", "number", <<3, 2, 1, 1, 1>>),
      Embedding("array", "number", <<4801, 4184, 640, 88, 0>>),
      Embedding("array", "number", <<0, 1, 0, 0, 0>>) }

MalformedEmbeddings ==
    { Embedding("unparsable", "number", <<>>),             \* not JSON
      Embedding("null", "number", <<>>),                   \* the JSON text null
      Embedding("array", "number", <<4, 3, 0, 0>>),        \* wrong dimension
      Embedding("array", "string", <<0, 0, 0, 0, 0>>),     \* ["a","b","c","d","e"]
      Embedding("array", "boolean", <<1, 0, 0, 0, 0>>) }   \* [true,false,false,false,false]

EmbeddingPool == WellFormedEmbeddings \cup MalformedEmbeddings

AssignmentEmbeddings == { <<1, 0, 0, 0, 0>>, <<3, 4, 0, 0, 0>> }

Corpora == UNION { [1..n -> EmbeddingPool] : n \in 0..MaxCorpus }

Dot(a, b) == SumOver(DOMAIN a, LAMBDA i : a[i] * b[i])

Thrown == [kind |-> "throw", num |-> 0, den |-> 1]
NaN == [kind |-> "nan", num |-> 0, den |-> 1]
Ratio(num, den) == [kind |-> "number", num |-> num, den |-> den]

cosineSimilarityNoNormCheck(vecA, e) ==
    IF e.json # "array" \/ Len(vecA) # Len(e.v) THEN Thrown
    ELSE IF Len(vecA) = 0 THEN Ratio(0, 1)
    ELSE Ratio(Dot(vecA, e.v), Sqrt(Dot(vecA, vecA)) * Sqrt(Dot(e.v, e.v)))

\* cosineSimilarity(vecA, vecB), vecA a numeric array and vecB what the caller
\* got for the stored embedding.  A string that is not JSON has a length
\* other than the vector's.  Arithmetic on a non-numeric string gives NaN, and
\* NaN === 0 is false; true and false count as 1 and 0.
cosineSimilarity(vecA, e) ==
    IF e.json # "array" \/ Len(vecA) # Len(e.v) THEN Thrown
    ELSE IF Len(vecA) = 0 THEN Ratio(0, 1)
    ELSE LET normA == Dot(vecA, vecA)
             normB == Dot(e.v, e.v)
         IN IF normA = 0 THEN Ratio(0, 1)
            ELSE IF e.elems = "string" THEN NaN
            ELSE IF normB = 0 THEN Ratio(0, 1)
            ELSE Ratio(Dot(vecA, e.v), Sqrt(normA) * Sqrt(normB))

\* similarity > 0.75 (false for NaN)
AboveThreshold(r) ==
    r.kind = "number" /\ r.num * 10000 > SimilarityThreshold * r.den

\* parseFloat(similarity.toFixed(4)) of a similarity above the threshold
RoundTo4(r) == (2 * r.num * 10000 + r.den) \div (2 * r.den)

\* The body of the for loop for one row: JSON.parse and cosineSimilarity inside
\* try/catch, and the push of a match.  Title, authors and abstract are copied
\* from the row unchanged and are left out.
RankRow(sims, a, row) ==
    IF row.embedding.json = "unparsable" THEN sims
    ELSE LET r == cosineSimilarity(a, row.embedding)
         IN IF AboveThreshold(r)
            THEN Append(sims, [id |-> row.id, similarity |-> RoundTo4(r)])
            ELSE sims

\* cosineSimilarity returned for this row (nothing was thrown)
Evaluated(a, row) ==
    row.embedding.json # "unparsable" /\ cosineSimilarity(a, row.embedding).kind # "throw"

InsertBeforeEqual(sorted, x) ==
    LET n == Cardinality({i \in DOMAIN sorted : sorted[i].similarity > x.similarity})
    IN SubSeq(sorted, 1, n) \o <<x>> \o SubSeq(sorted, n + 1, Len(sorted))

\* one element put into an already sorted array: after everything that the
\* comparator (a, b) => b.similarity - a.similarity does not place behind it
Insert(sorted, x) ==
    LET n == Cardinality({i \in DOMAIN sorted : sorted[i].similarity >= x.similarity})
    IN SubSeq(sorted, 1, n) \o <<x>> \o SubSeq(sorted, n + 1, Len(sorted))

\* similarities.sort((a, b) => b.similarity - a.similarity): Array.prototype.sort
\* is stable (README: Node.js v14 or higher)
SortBySimilarity(sims) ==
    LET RECURSIVE Go(_, _)
        Go(done, i) == IF i > Len(sims) THEN done ELSE Go(Insert(done, sims[i]), i + 1)
    IN Go(<<>>, 1)

SliceWhole(seq, n) == seq

\* array.slice(0, n)
Slice(seq, n) == SubSeq(seq, 1, Min(n, Len(seq)))

RankInit ==
    /\ rk_mode = "none"
    /\ rk_pc = "idle"
    /\ assignmentEmbedding = <<>>
    /\ corpus = <<>>
    /\ rk_i = 1
    /\ similarities = <<>>
    /\ suggested = <<>>
    /\ scored = {}
    /\ batchResult = <<>>

\* uploadAssignment steps 2 and 3 up to the loop (getEmbedding, SELECT ... FROM
\* academic_sources), or a call of batchCosineSimilarity on the same data; a
\* row's id is its position
LoadSources ==
    /\ rk_pc = "idle"
    /\ \E mode \in {"upload", "batch"}, a \in AssignmentEmbeddings, c \in Corpora :
          /\ rk_mode' = mode
          /\ assignmentEmbedding' = a
          /\ corpus' = [i \in DOMAIN c |-> [id |-> i, embedding |-> c[i]]]
    /\ rk_pc' = "loop"
    /\ UNCHANGED <<rk_i, similarities, suggested, scored, batchResult>>
    /\ UNCHANGED <<scorerVars, summaryVars, cosineVars, embedVars, monoVars, uploadVars, accessVars, n8nVars>>

\* one iteration of for (let source of sources)
RankSource ==
    /\ rk_mode = "upload"
    /\ rk_pc = "loop"
    /\ rk_i <= Len(corpus)
    /\ similarities' = RankRow(similarities, assignmentEmbedding, corpus[rk_i])
    /\ scored' = IF Evaluated(assignmentEmbedding, corpus[rk_i])
                 THEN scored \cup {corpus[rk_i].id} ELSE scored
    /\ rk_i' = rk_i + 1
    /\ UNCHANGED <<rk_mode, rk_pc, assignmentEmbedding, corpus, suggested, batchResult>>
    /\ UNCHANGED <<scorerVars, summaryVars, cosineVars, embedVars, monoVars, uploadVars, accessVars, n8nVars>>

\* after the loop: the sort, and the slice handed to generateSummary and stored
\* as suggested_sources
SortSimilarities ==
    /\ rk_mode = "upload"
    /\ rk_pc = "loop"
    /\ rk_i > Len(corpus)
    /\ similarities' = SortBySimilarity(similarities)
    /\ suggested' = Slice(similarities', MaxSuggested)
    /\ rk_pc' = "done"
    /\ UNCHANGED <<rk_mode, assignmentEmbedding, corpus, rk_i, scored, batchResult>>
    /\ UNCHANGED <<scorerVars, summaryVars, cosineVars, embedVars, monoVars, uploadVars, accessVars, n8nVars>>

\* batchCosineSimilarity: one element of sourceEmbeddings.map(...); nothing
\* catches what cosineSimilarity throws
BatchMapSource ==
    /\ rk_mode = "batch"
    /\ rk_pc = "loop"
    /\ rk_i <= Len(corpus)
    /\ LET r == cosineSimilarity(assignmentEmbedding, corpus[rk_i].embedding)
       IN IF r.kind = "throw"
          THEN /\ rk_pc' = "raised"
               /\ batchResult' = <<>>
               /\ UNCHANGED <<scored, rk_i>>
          ELSE /\ batchResult' = Append(batchResult, [id |-> corpus[rk_i].id, similarity |-> r])
               /\ scored' = scored \cup {corpus[rk_i].id}
               /\ rk_i' = rk_i + 1
               /\ UNCHANGED rk_pc
    /\ UNCHANGED <<rk_mode, assignmentEmbedding, corpus, similarities, suggested>>
    /\ UNCHANGED <<scorerVars, summaryVars, cosineVars, embedVars, monoVars, uploadVars, accessVars, n8nVars>>

\* batchCosineSimilarity returns the mapped array
BatchReturn ==
    /\ rk_mode = "batch"
    /\ rk_pc = "loop"
    /\ rk_i > Len(corpus)
    /\ rk_pc' = "done"
    /\ UNCHANGED <<rk_mode, assignmentEmbedding, corpus, rk_i, similarities,
                   suggested, scored, batchResult>>
    /\ UNCHANGED <<scorerVars, summaryVars, cosineVars, embedVars, monoVars, uploadVars, accessVars, n8nVars>>

RankNext ==
    \/ LoadSources
    \/ RankSource
    \/ SortSimilarities
    \/ BatchMapSource
    \/ BatchReturn

(***************************************************************************)
(* The ranking loop on a corpus with more matches than are kept.           *)
(***************************************************************************)
MaxManySources == 7

\* against <<3, 4, 0, 0, 0>> these score 0.96, 0.85 and 0.8; against
\* <<1, 0, 0, 0, 0>> they score 0.8, 0.75 and 0
ManyPool ==
    { Embedding("array", "number", <<4, 3, 0, 0, 0>>),
      Embedding("array", "number", <<3, 2, 1, 1, 1>>),
      Embedding("array", "number", <<0, 1, 0, 0, 0>>) }

ManyCorpora == UNION { [1..n -> ManyPool] : n \in (MaxSuggested + 1)..MaxManySources }

\* uploadAssignment steps 2 and 3 up to the loop, academic_sources holding
\* more rows than the handler keeps
LoadManySources ==
    /\ rk_pc = "idle"
    /\ \E a \in AssignmentEmbeddings, c \in ManyCorpora :
          /\ assignmentEmbedding' = a
          /\ corpus' = [i \in DOMAIN c |-> [id |-> i, embedding |-> c[i]]]
    /\ rk_mode' = "upload"
    /\ rk_pc' = "loop"
    /\ UNCHANGED <<rk_i, similarities, suggested, scored, batchResult>>
    /\ UNCHANGED <<scorerVars, summaryVars, cosineVars, embedVars, monoVars, uploadVars, accessVars, n8nVars>>

TopNext ==
    \/ LoadManySources
    \/ RankSource
    \/ SortSimilarities

(***************************************************************************)
(* cosineSimilarity as an exported function: any two arguments.            *)
(***************************************************************************)
MaxDim == 3
MaxComponent == 2

\* numeric arrays of up to MaxDim components whose norm is an integer
CsVectors ==
    LET IsSquare(n) == Sqrt(n) * Sqrt(n) = n
    IN UNION { {v \in [1..n -> (0 - MaxComponent)..MaxComponent] : IsSquare(Dot(v, v))}
               : n \in 0..MaxDim }

\* what a caller can pass: undefined, null or an array
CsValues ==
    { Embedding("undefined", "number", <<>>), Embedding("null", "number", <<>>) }
    \cup { Embedding("array", "number", v) : v \in CsVectors }

\* cosineSimilarity(vecA, vecB) for any first argument: !vecA is true for
\* undefined and null
cosineSimilarityCall(a, b) ==
    IF a.json # "array" THEN Thrown ELSE cosineSimilarity(a.v, b)

CosineInit ==
    /\ cs_pc = "idle"
    /\ cs_vecA = Embedding("none", "number", <<>>)
    /\ cs_vecB = Embedding("none", "number", <<>>)
    /\ cs_result = Thrown

CallCosineSimilarity ==
    /\ cs_pc = "idle"
    /\ \E a \in CsValues, b \in CsValues :
          /\ cs_vecA' = a
          /\ cs_vecB' = b
          /\ cs_result' = cosineSimilarityCall(a, b)
    /\ cs_pc' = "called"
    /\ UNCHANGED <<scorerVars, summaryVars, rankVars, embedVars, monoVars, uploadVars, accessVars, n8nVars>>

(***************************************************************************)
(* calculatePlagiarismScore on a text and then on the same text with one   *)
(* more triggering indicator.                                              *)
(***************************************************************************)
MaxMonoFragments == 3

\* fragments that hold a definite indicator, a citation pattern, a URL, an
\* academic phrase or an over-long line
TriggerFrags == FragKinds \ {"sent4", "para5"}

MonoInit ==
    /\ mono_added = "none"
    /\ mono_before = NoResult

\* the text that reaches the scorer grows by one fragment
AppendFewFragments ==
    /\ sc_pc = "editing"
    /\ textDefined
    /\ SumOver(FragKinds, LAMBDA f : doc[f]) < MaxMonoFragments
    /\ \E k \in FragKinds : doc' = [doc EXCEPT ![k] = @ + 1]
    /\ UNCHANGED <<textDefined, sc_pc, plagiarismResult, plagiarismScore>>
    /\ UNCHANGED <<summaryVars, rankVars, cosineVars, embedVars, monoVars, uploadVars, accessVars, n8nVars>>

\* the scored text, with one more triggering fragment, is scored again
ScoreWithOneMoreIndicator ==
    /\ sc_pc = "scored"
    /\ textDefined
    /\ \E k \in TriggerFrags :
          /\ mono_added' = k
          /\ doc' = [doc EXCEPT ![k] = @ + 1]
    /\ mono_before' = plagiarismResult
    /\ plagiarismResult' = calculatePlagiarismScore(textDefined, doc')
    /\ plagiarismScore' = ReadScore(plagiarismResult')
    /\ sc_pc' = "rescored"
    /\ UNCHANGED textDefined
    /\ UNCHANGED <<summaryVars, rankVars, cosineVars, embedVars, uploadVars, accessVars, n8nVars>>

MonoNext ==
    \/ AppendFewFragments
    \/ ScoreText
    \/ ScoreWithOneMoreIndicator

(***************************************************************************)
(* getEmbedding (deepseekService.js: the placeholder; aiService.js: the     *)
(* OpenAI embeddings endpoint).                                            *)
(*                                                                         *)
(* A text is a list of words, each a list of character codes, separated by *)
(* single blanks, with or without white space before the first and after   *)
(* the last word.  All texts are shorter than 4000 characters, so          *)
(* truncatedText is the text itself.  Components of the returned vector    *)
(* are counted in hundredths.                                              *)
(***************************************************************************)
EmbeddingSize == 100
MaxCalls == 3

EmText(defined, lead, words, trail) ==
    [defined |-> defined, lead |-> lead, words |-> words, trail |-> trail]

EmTexts ==
    LET analysis == <<97, 110, 97, 108, 121, 115, 105, 115>>
        Analysis == <<65, 110, 97, 108, 121, 115, 105, 115>>
        essay == <<101, 115, 115, 97, 121>>
    IN { EmText(FALSE, FALSE, <<>>, FALSE),                     \* undefined
         EmText(TRUE, FALSE, <<>>, FALSE),                      \* ""
         EmText(TRUE, TRUE, <<>>, FALSE),                       \* " \n\t"
         EmText(TRUE, FALSE, <<analysis>>, FALSE),              \* "analysis"
         EmText(TRUE, TRUE, <<Analysis, essay>>, TRUE),         \* " Analysis essay "
         EmText(TRUE, FALSE, <<essay, analysis>>, FALSE),       \* "essay analysis"
         EmText(TRUE, FALSE, [i \in 1..(EmbeddingSize + 1) |-> <<97>>], FALSE) }
                                                                \* "a a a ... a", 101 words

\* truncatedText.toLowerCase().split(/\s+/).slice(0, 100): white space at
\* either end of the text yields an empty string there
Words(text) ==
    LET lower(c) == IF c \in 65..90 THEN c + 32 ELSE c
        all == (IF text.lead THEN << <<>> >> ELSE <<>>)
               \o [i \in DOMAIN text.words |->
                     [k \in DOMAIN text.words[i] |-> lower(text.words[i][k])]]
               \o (IF text.trail \/ text.words = <<>> THEN << <<>> >> ELSE <<>>)
    IN SubSeq(all, 1, Min(EmbeddingSize, Len(all)))

\* A 32-bit integer as the two 16-bit halves of its bit pattern.
\* hash = ((hash << 5) - hash) + word.charCodeAt(i); hash |= 0
HashStep(hash, code) ==
    LET lo == 31 * hash.lo + code
    IN [hi |-> (31 * hash.hi + lo \div 65536) % 65536, lo |-> lo % 65536]

\* the signed value of the bit pattern
Int32(hash) ==
    IF hash.hi >= 32768 THEN (hash.hi - 65536) * 65536 + hash.lo
    ELSE hash.hi * 65536 + hash.lo

\* a % b of JavaScript (b > 0): the result has the sign of a
JsRemainder(a, b) == IF a >= 0 \/ a % b = 0 THEN a % b ELSE (a % b) - b

CarriedHash(previous) == previous

\* let hash = 0, for every word anew
FreshHash(previous) == [hi |-> 0, lo |-> 0]

IsBlankUndefinedOnly(text) == ~text.defined

\* !text || text.trim().length === 0
IsBlank(text) == ~text.defined \/ text.words = <<>>

\* deepseekService.getEmbedding(text); `previous` is what an earlier call
\* left in its local `hash`.  new Array(100).fill(0), then words.forEach sets
\* embedding[index] = (hash % 100) / 100.  The result carries the last value
\* of `hash`.
getEmbedding(text, previous) ==
    IF IsBlank(text)
    THEN [kind |-> "raised", v |-> <<>>, hash |-> previous,
          error |-> "Analysis preparation failed: Text cannot be empty for analysis"]
    ELSE LET words == Words(text)
             RECURSIVE HashWord(_, _, _)
             HashWord(word, i, hash) ==
                 IF i > Len(word) THEN hash
                 ELSE HashWord(word, i + 1, HashStep(hash, word[i]))
             hash(index) == HashWord(words[index], 1, FreshHash(previous))
         IN [kind |-> "vector",
             v |-> [index \in 1..EmbeddingSize |->
                      IF index <= Len(words)
                      THEN JsRemainder(Int32(hash(index)), 100) ELSE 0],
             error |-> "",
             hash |-> hash(Len(words))]

\* aiService.getEmbedding(text): the vector is the provider's
getEmbeddingOpenAI(text, answered) ==
    IF IsBlank(text)
    THEN [kind |-> "raised", v |-> <<>>, hash |-> <<>>,
          error |-> "Embedding generation failed: Text cannot be empty for embedding generation"]
    ELSE IF answered
    THEN [kind |-> "vector", v |-> <<"response.data[0].embedding">>, error |-> "", hash |-> <<>>]
    ELSE [kind |-> "raised", v |-> <<>>, hash |-> <<>>,
          error |-> "Embedding generation failed: No embedding data received from OpenAI"]

EmbedInit ==
    /\ em_service = "none"
    /\ em_history = <<>>
    /\ em_hash = [hi |-> 0, lo |-> 0]

\* one call of the placeholder
GetEmbeddingCall ==
    /\ em_service \in {"none", "deepseek"}
    /\ Len(em_history) < MaxCalls
    /\ \E text \in EmTexts :
          LET r == getEmbedding(text, em_hash)
          IN /\ em_history' = Append(em_history,
                                    [text |-> text, kind |-> r.kind, v |-> r.v, error |-> r.error])
             /\ em_hash' = r.hash
    /\ em_service' = "deepseek"
    /\ UNCHANGED <<scorerVars, summaryVars, rankVars, cosineVars, monoVars, uploadVars, accessVars, n8nVars>>

\* one call of aiService.getEmbedding
GetEmbeddingOpenAICall ==
    /\ em_service \in {"none", "openai"}
    /\ Len(em_history) < MaxCalls
    /\ \E text \in EmTexts, answered \in BOOLEAN :
          LET r == getEmbeddingOpenAI(text, answered)
          IN em_history' = Append(em_history,
                                  [text |-> text, kind |-> r.kind, v |-> r.v, error |-> r.error])
    /\ em_service' = "openai"
    /\ UNCHANGED em_hash
    /\ UNCHANGED <<scorerVars, summaryVars, rankVars, cosineVars, monoVars, uploadVars, accessVars, n8nVars>>

EmbedNext ==
    \/ GetEmbeddingCall
    \/ GetEmbeddingOpenAICall

(***************************************************************************)
(* uploadAssignment, cleanupFile and triggerN8nWorkflow (upload controller, *)
(* Supabase and n8n edition).  multer has stored the file in uploads/      *)
(* before the handler runs.  analyzeWithLocalAI catches its own errors, so *)
(* the handler's basic analysis (the catch of step 2) is never used.       *)
(***************************************************************************)
\* the themes analyzeWithLocalAI pushes, in the order of its if statements
ThemeNames ==
    << "Research Methodology", "Data Analysis", "Research Findings",
       "Conclusion Synthesis", "Theoretical Framework", "Literature Review" >>

\* key_themes of analyzeWithLocalAI for a text that holds the key words of
\* the themes in `found`
LocalKeyThemes(found) ==
    LET keyThemes == SelectSeq(ThemeNames, LAMBDA t : t \in found)
    IN IF keyThemes = <<>>
       THEN <<"Academic Writing", "Critical Analysis", "Content Evaluation">>
       ELSE Slice(keyThemes, 4)

\* file: req.file is missing, has another extension, or is a PDF/DOCX;
\* text: extractText throws, or returns fewer than 50 characters, or more;
\* found: the themes whose key words the text holds;
\* webhookUrl: N8N_WEBHOOK_URL is set
UploadInputs ==
    [file : {"none", "badtype", "ok"},
     text : {"unreadable", "short", "ok"},
     found : SUBSET {ThemeNames[i] : i \in DOMAIN ThemeNames},
     webhookUrl : BOOLEAN]

NoAnalysisRow ==
    [exists |-> FALSE, analyzed_at |-> "null", n8n_processed |-> FALSE,
     n8n_workflow_id |-> "null"]

UpdateUnlessSkipped(n8nResult) == ~n8nResult.skipped

\* if (n8nResult.success && !n8nResult.skipped)
ShouldUpdate(n8nResult) == n8nResult.success /\ ~n8nResult.skipped

\* the row after the callback has looked at the result of the trigger; the
\* update may itself fail, which the callback does not look at
RowAfterTrigger(row, update, updated) ==
    IF update /\ updated /\ row.exists
    THEN [row EXCEPT !.analyzed_at = "set", !.n8n_processed = TRUE,
                     !.n8n_workflow_id = "set"]
    ELSE row

StepAfterSkippingCleanup(step) ==
    CASE step = "extract" -> "insertAssignment"
      [] step = "insertAssignment" -> "insertAnalysis"
      [] step = "insertAnalysis" -> "respond"
      [] step = "cleanup" -> "respond"

\* the order of the steps of the try block
StepAfter(step) ==
    CASE step = "extract" -> "insertAssignment"
      [] step = "insertAssignment" -> "insertAnalysis"
      [] step = "insertAnalysis" -> "cleanup"
      [] step = "cleanup" -> "respond"

UploadInit ==
    /\ up_pc = "idle"
    /\ up_input = [file |-> "none", text |-> "unreadable", found |-> {},
                   webhookUrl |-> FALSE]
    /\ up_filePath = FALSE
    /\ up_fileOnDisk = FALSE
    /\ up_cleanups = 0
    /\ up_keyThemes = <<>>
    /\ up_response = 0
    /\ assignmentsRow = FALSE
    /\ analysisRow = NoAnalysisRow
    /\ up_events = <<>>
    /\ bg_pc = "none"

\* the request arrives; the checks of req.file and of the extension, which
\* answer 400 before filePath is assigned
StartUpload ==
    /\ up_pc = "idle"
    /\ \E input \in UploadInputs :
          /\ up_input' = input
          /\ up_fileOnDisk' = (input.file # "none")
          /\ IF input.file = "ok"
             THEN /\ up_filePath' = TRUE
                  /\ up_pc' = "extract"
                  /\ UNCHANGED up_response
             ELSE /\ up_response' = 400
                  /\ up_pc' = "done"
                  /\ UNCHANGED up_filePath
    /\ UNCHANGED <<up_cleanups, up_keyThemes, assignmentsRow, analysisRow,
                   up_events, bg_pc>>
    /\ UNCHANGED <<scorerVars, summaryVars, rankVars, cosineVars, embedVars, monoVars,
                   accessVars, n8nVars>>

\* steps 1 to 3: extractText, the check of the length, analyzeWithLocalAI.
\* An error of extractText goes to the catch block: cleanupFile, then 500;
\* unlink may fail, which cleanupFile only logs.
ExtractAndAnalyze ==
    /\ up_pc = "extract"
    /\ CASE up_input.text = "unreadable" ->
              /\ \E deleted \in BOOLEAN : up_fileOnDisk' = ~deleted
              /\ up_cleanups' = up_cleanups + 1
              /\ up_response' = 500
              /\ up_pc' = "done"
              /\ UNCHANGED up_keyThemes
         [] up_input.text = "short" ->
              /\ up_response' = 400
              /\ up_pc' = "done"
              /\ UNCHANGED <<up_fileOnDisk, up_cleanups, up_keyThemes>>
         [] up_input.text = "ok" ->
              /\ up_keyThemes' = LocalKeyThemes(up_input.found)
              /\ up_pc' = StepAfter("extract")
              /\ UNCHANGED <<up_fileOnDisk, up_cleanups, up_response>>
    /\ UNCHANGED <<up_input, up_filePath, assignmentsRow, analysisRow, up_events, bg_pc>>
    /\ UNCHANGED <<scorerVars, summaryVars, rankVars, cosineVars, embedVars, monoVars,
                   accessVars, n8nVars>>

\* step 4: the insert into assignments; assignmentError is thrown
InsertAssignment ==
    /\ up_pc = "insertAssignment"
    /\ \E inserted \in BOOLEAN :
          IF inserted
          THEN /\ assignmentsRow' = TRUE
               /\ up_events' = Append(up_events, "insert assignments")
               /\ up_pc' = StepAfter("insertAssignment")
               /\ UNCHANGED <<up_fileOnDisk, up_cleanups, up_response>>
          ELSE /\ \E deleted \in BOOLEAN : up_fileOnDisk' = ~deleted
               /\ up_cleanups' = up_cleanups + 1
               /\ up_response' = 500
               /\ up_pc' = "done"
               /\ UNCHANGED <<assignmentsRow, up_events>>
    /\ UNCHANGED <<up_input, up_filePath, up_keyThemes, analysisRow, bg_pc>>
    /\ UNCHANGED <<scorerVars, summaryVars, rankVars, cosineVars, embedVars, monoVars,
                   accessVars, n8nVars>>

\* step 5: the insert into analysis_results, which names neither analyzed_at
\* nor the n8n columns; the table definition of the Supabase edition is not
\* in the repository, so analyzed_at is left NULL or gets a column default.
\* analysisError is thrown; nothing removes the assignments row then.
InsertAnalysis ==
    /\ up_pc = "insertAnalysis"
    /\ \E inserted \in BOOLEAN, dflt \in {"null", "default"} :
          IF inserted
          THEN /\ analysisRow' = [NoAnalysisRow EXCEPT !.exists = TRUE,
                                                       !.analyzed_at = dflt]
               /\ up_events' = Append(up_events, "insert analysis_results")
               /\ up_pc' = StepAfter("insertAnalysis")
               /\ UNCHANGED <<up_fileOnDisk, up_cleanups, up_response>>
          ELSE /\ dflt = "null"
               /\ \E deleted \in BOOLEAN : up_fileOnDisk' = ~deleted
               /\ up_cleanups' = up_cleanups + 1
               /\ up_response' = 500
               /\ up_pc' = "done"
               /\ UNCHANGED <<analysisRow, up_events>>
    /\ UNCHANGED <<up_input, up_filePath, up_keyThemes, assignmentsRow, bg_pc>>
    /\ UNCHANGED <<scorerVars, summaryVars, rankVars, cosineVars, embedVars, monoVars,
                   accessVars, n8nVars>>

\* step 7: await cleanupFile(filePath)
CleanupUploadedFile ==
    /\ up_pc = "cleanup"
    /\ \E deleted \in BOOLEAN : up_fileOnDisk' = ~deleted
    /\ up_cleanups' = up_cleanups + 1
    /\ up_events' = Append(up_events, "cleanupFile")
    /\ up_pc' = StepAfter("cleanup")
    /\ UNCHANGED <<up_input, up_filePath, up_keyThemes, up_response, assignmentsRow,
                   analysisRow, bg_pc>>
    /\ UNCHANGED <<scorerVars, summaryVars, rankVars, cosineVars, embedVars, monoVars,
                   accessVars, n8nVars>>

\* steps 8 and 9: setImmediate(...) and res.status(200), in the same turn
ScheduleAndRespond ==
    /\ up_pc = "respond"
    /\ bg_pc' = "scheduled"
    /\ up_response' = 200
    /\ up_events' = up_events \o <<"setImmediate", "respond 200">>
    /\ up_pc' = "done"
    /\ UNCHANGED <<up_input, up_filePath, up_fileOnDisk, up_cleanups, up_keyThemes,
                   assignmentsRow, analysisRow>>
    /\ UNCHANGED <<scorerVars, summaryVars, rankVars, cosineVars, embedVars, monoVars,
                   accessVars, n8nVars>>

\* the callback starts: triggerN8nWorkflow returns at once when
\* N8N_WEBHOOK_URL is not set, and posts the payload otherwise
TriggerN8nWorkflow ==
    /\ bg_pc = "scheduled"
    /\ IF up_input.webhookUrl
       THEN /\ up_events' = Append(up_events, "axios.post")
            /\ bg_pc' = "posting"
            /\ UNCHANGED analysisRow
       ELSE /\ up_events' = Append(up_events, "skipped")
            /\ \E updated \in BOOLEAN :
                  analysisRow' =
                     RowAfterTrigger(analysisRow,
                                     ShouldUpdate([success |-> FALSE, skipped |-> TRUE]),
                                     updated)
            /\ bg_pc' = "done"
    /\ UNCHANGED <<up_pc, up_input, up_filePath, up_fileOnDisk, up_cleanups,
                   up_keyThemes, up_response, assignmentsRow>>
    /\ UNCHANGED <<scorerVars, summaryVars, rankVars, cosineVars, embedVars, monoVars,
                   accessVars, n8nVars>>

\* the post ends, with an answer or with an error (the 10 seconds of its
\* timeout included), and the callback does the rest; the update may itself
\* fail, which goes unnoticed
WebhookReturns ==
    /\ bg_pc = "posting"
    /\ \E answered \in BOOLEAN, updated \in BOOLEAN :
          LET n8nResult == IF answered
                           THEN [success |-> TRUE, skipped |-> FALSE]
                           ELSE [success |-> FALSE, skipped |-> FALSE]
          IN /\ up_events' = Append(up_events,
                                    IF answered THEN "post returned" ELSE "post failed")
             /\ analysisRow' =
                   RowAfterTrigger(analysisRow, ShouldUpdate(n8nResult), updated)
    /\ bg_pc' = "done"
    /\ UNCHANGED <<up_pc, up_input, up_filePath, up_fileOnDisk, up_cleanups,
                   up_keyThemes, up_response, assignmentsRow>>
    /\ UNCHANGED <<scorerVars, summaryVars, rankVars, cosineVars, embedVars, monoVars,
                   accessVars, n8nVars>>

UploadNext ==
    \/ StartUpload
    \/ ExtractAndAnalyze
    \/ InsertAssignment
    \/ InsertAnalysis
    \/ CleanupUploadedFile
    \/ ScheduleAndRespond
    \/ TriggerN8nWorkflow
    \/ WebhookReturns

(***************************************************************************)
(* GET /analysis/:id, GET /upload/status/:assignmentId and                 *)
(* DELETE /upload/:assignmentId.  req.user.id is the student of the token  *)
(* authMiddleware has verified.  Ids come from a serial column and are not *)
(* used again after a delete.                                              *)
(***************************************************************************)
MaxAssignments == 2

Students == {"A", "B"}

NoRow == [owner |-> "none", analyzed_at |-> "null"]

RowById(rows, id, studentId) == rows[id]

\* .eq('id', assignmentId).eq('student_id', studentId).single():
\* the row, or NoRow where the query ends with PGRST116
OwnedRow(rows, id, studentId) ==
    IF rows[id].owner = studentId THEN rows[id] ELSE NoRow

AccessInit ==
    /\ db_rows = [id \in 1..MaxAssignments |-> NoRow]
    /\ db_nextId = 1
    /\ ac_before = NoRow
    /\ ac_last = [route |-> "none", student |-> "none", id |-> 0, answered |-> TRUE,
                  status |-> 0, data |-> "none", after |-> NoRow]

\* an upload of a student has inserted its two rows
CreateAssignment ==
    /\ db_nextId <= MaxAssignments
    /\ \E student \in Students :
          db_rows' = [db_rows EXCEPT ![db_nextId] =
                         [owner |-> student, analyzed_at |-> "null"]]
    /\ db_nextId' = db_nextId + 1
    /\ UNCHANGED <<ac_before, ac_last>>
    /\ UNCHANGED <<scorerVars, summaryVars, rankVars, cosineVars, embedVars, monoVars,
                   uploadVars, n8nVars>>

\* the callback of the upload sets analyzed_at on the row
CompleteAnalysis ==
    /\ \E id \in 1..MaxAssignments :
          /\ db_rows[id].owner # "none"
          /\ db_rows[id].analyzed_at = "null"
          /\ db_rows' = [db_rows EXCEPT ![id].analyzed_at = "set"]
    /\ UNCHANGED <<db_nextId, ac_before, ac_last>>
    /\ UNCHANGED <<scorerVars, summaryVars, rankVars, cosineVars, embedVars, monoVars,
                   uploadVars, n8nVars>>

\* GET /analysis/:id: `answered` is FALSE when the query ends with an error
\* other than PGRST116, which is thrown and answered with 500;
\* `data` is the student whose row the response shows
GetAnalysis ==
    /\ \E student \in Students, id \in 1..MaxAssignments, answered \in BOOLEAN :
          LET result == OwnedRow(db_rows, id, student)
              sent == CASE ~answered -> [status |-> 500, data |-> "none"]
                         [] answered /\ result = NoRow -> [status |-> 404, data |-> "none"]
                         [] answered /\ result # NoRow /\ result.analyzed_at = "null" ->
                               [status |-> 202, data |-> result.owner]
                         [] OTHER -> [status |-> 200, data |-> result.owner]
          IN /\ ac_before' = db_rows[id]
             /\ ac_last' = [route |-> "analysis", student |-> student, id |-> id,
                            answered |-> answered, status |-> sent.status,
                            data |-> sent.data, after |-> db_rows[id]]
    /\ UNCHANGED <<db_rows, db_nextId>>
    /\ UNCHANGED <<scorerVars, summaryVars, rankVars, cosineVars, embedVars, monoVars,
                   uploadVars, n8nVars>>

\* GET /upload/status/:assignmentId
GetStatus ==
    /\ \E student \in Students, id \in 1..MaxAssignments, answered \in BOOLEAN :
          LET results == OwnedRow(db_rows, id, student)
              sent == CASE ~answered -> [status |-> 500, data |-> "none"]
                         [] answered /\ results = NoRow -> [status |-> 404, data |-> "none"]
                         [] OTHER -> [status |-> 200, data |-> results.owner]
          IN /\ ac_before' = db_rows[id]
             /\ ac_last' = [route |-> "status", student |-> student, id |-> id,
                            answered |-> answered, status |-> sent.status,
                            data |-> sent.data, after |-> db_rows[id]]
    /\ UNCHANGED <<db_rows, db_nextId>>
    /\ UNCHANGED <<scorerVars, summaryVars, rankVars, cosineVars, embedVars, monoVars,
                   uploadVars, n8nVars>>

\* DELETE /upload/:assignmentId: the query for the owner's row, then the
\* delete by id alone, which takes the analysis_results row with it;
\* `deleted` is FALSE when the delete returns deleteError
DeleteAssignment ==
    /\ \E student \in Students, id \in 1..MaxAssignments, answered \in BOOLEAN,
          deleted \in BOOLEAN :
          LET assignments == OwnedRow(db_rows, id, student)
          IN /\ ~answered => deleted
             /\ IF answered /\ assignments # NoRow /\ deleted
                THEN db_rows' = [db_rows EXCEPT ![id] = NoRow]
                ELSE UNCHANGED db_rows
             /\ ac_last' = [route |-> "delete", student |-> student, id |-> id,
                            answered |-> answered,
                            status |-> CASE ~answered -> 500
                                         [] answered /\ assignments = NoRow -> 404
                                         [] answered /\ assignments # NoRow /\ ~deleted -> 500
                                         [] OTHER -> 200,
                            data |-> "none", after |-> db_rows'[id]]
             /\ ac_before' = db_rows[id]
    /\ UNCHANGED db_nextId
    /\ UNCHANGED <<scorerVars, summaryVars, rankVars, cosineVars, embedVars, monoVars,
                   uploadVars, n8nVars>>

AccessNext ==
    \/ CreateAssignment
    \/ CompleteAnalysis
    \/ GetAnalysis
    \/ GetStatus
    \/ DeleteAssignment

(***************************************************************************)
(* N8NService.triggerFullWorkflow and updateWorkflowStatus.  assignmentData *)
(* is an object; its basicAnalysis may be missing, which raises a TypeError *)
(* inside the try block before anything is posted.                         *)
(***************************************************************************)
MaxTriggers == 5

NoN8nResult == [kind |-> "none", success |-> FALSE, skipped |-> FALSE]

UpdateRaisesOnError(updated) == ~updated

\* updateWorkflowStatus catches the error of its update and only logs it
UpdateRaises(updated) == FALSE

N8nInit ==
    /\ n8_pc = "new"
    /\ n8_enabled = FALSE
    /\ n8_calls = 0
    /\ n8_status = "null"
    /\ n8_log = <<>>
    /\ n8_result = NoN8nResult

\* constructor: this.enabled = process.env.N8N_ENABLED === 'true'
ConstructN8NService ==
    /\ n8_pc = "new"
    /\ n8_enabled' \in BOOLEAN
    /\ n8_pc' = "idle"
    /\ UNCHANGED <<n8_calls, n8_status, n8_log, n8_result>>
    /\ UNCHANGED <<scorerVars, summaryVars, rankVars, cosineVars, embedVars, monoVars,
                   uploadVars, accessVars>>

\* triggerFullWorkflow(assignmentData) up to its first await
TriggerFullWorkflowCall ==
    /\ n8_pc = "idle"
    /\ n8_calls < MaxTriggers
    /\ n8_calls' = n8_calls + 1
    /\ \E basicAnalysis \in BOOLEAN :
          CASE ~n8_enabled ->
                 /\ n8_log' = <<"disabled">>
                 /\ n8_result' = [kind |-> "returned", success |-> TRUE, skipped |-> TRUE]
                 /\ n8_pc' = "idle"
            [] n8_enabled /\ ~basicAnalysis ->
                 /\ n8_log' = <<"TypeError">>
                 /\ n8_result' = NoN8nResult
                 /\ n8_pc' = "catch"
            [] n8_enabled /\ basicAnalysis ->
                 /\ n8_log' = <<"axios.post">>
                 /\ n8_result' = NoN8nResult
                 /\ n8_pc' = "posting"
    /\ UNCHANGED <<n8_enabled, n8_status>>
    /\ UNCHANGED <<scorerVars, summaryVars, rankVars, cosineVars, embedVars, monoVars,
                   uploadVars, accessVars>>

\* the post ends: with a workflow_id, without one, or with an error (the
\* timeout of 45 seconds included)
WebhookResponds ==
    /\ n8_pc = "posting"
    /\ \E response \in {"workflow_id", "no workflow_id", "error"} :
          CASE response = "error" ->
                 /\ n8_log' = Append(n8_log, "post failed")
                 /\ n8_pc' = "catch"
                 /\ UNCHANGED n8_result
            [] response = "workflow_id" ->
                 /\ n8_log' = Append(n8_log, "post returned")
                 /\ n8_pc' = "updating"
                 /\ UNCHANGED n8_result
            [] response = "no workflow_id" ->
                 /\ n8_log' = Append(n8_log, "post returned")
                 /\ n8_result' = [kind |-> "returned", success |-> TRUE, skipped |-> FALSE]
                 /\ n8_pc' = "idle"
    /\ UNCHANGED <<n8_enabled, n8_calls, n8_status>>
    /\ UNCHANGED <<scorerVars, summaryVars, rankVars, cosineVars, embedVars, monoVars,
                   uploadVars, accessVars>>

\* await this.updateWorkflowStatus(..., {n8n_status: 'triggered'}), then the
\* return of the try block
UpdateTriggered ==
    /\ n8_pc = "updating"
    /\ \E updated \in BOOLEAN :
          /\ n8_status' = IF updated THEN "triggered" ELSE n8_status
          /\ n8_log' = Append(n8_log, IF updated THEN "set triggered"
                                                 ELSE "set triggered failed")
          /\ IF UpdateRaises(updated)
             THEN /\ n8_pc' = "catch"
                  /\ UNCHANGED n8_result
             ELSE /\ n8_result' = [kind |-> "returned", success |-> TRUE,
                                   skipped |-> FALSE]
                  /\ n8_pc' = "idle"
    /\ UNCHANGED <<n8_enabled, n8_calls>>
    /\ UNCHANGED <<scorerVars, summaryVars, rankVars, cosineVars, embedVars, monoVars,
                   uploadVars, accessVars>>

\* the catch block: await this.updateWorkflowStatus(..., {n8n_status:
\* 'failed'}), then the return of the graceful failure
CatchFailure ==
    /\ n8_pc = "catch"
    /\ \E updated \in BOOLEAN :
          /\ n8_status' = IF updated THEN "failed" ELSE n8_status
          /\ n8_log' = Append(n8_log, IF updated THEN "set failed"
                                                 ELSE "set failed failed")
          /\ n8_result' = IF UpdateRaises(updated)
                          THEN [kind |-> "rejected", success |-> FALSE, skipped |-> FALSE]
                          ELSE [kind |-> "returned", success |-> FALSE, skipped |-> TRUE]
    /\ n8_pc' = "idle"
    /\ UNCHANGED <<n8_enabled, n8_calls>>
    /\ UNCHANGED <<scorerVars, summaryVars, rankVars, cosineVars, embedVars, monoVars,
                   uploadVars, accessVars>>

N8nNext ==
    \/ ConstructN8NService
    \/ TriggerFullWorkflowCall
    \/ WebhookResponds
    \/ UpdateTriggered
    \/ CatchFailure

Init ==
    /\ N8nInit
    /\ AccessInit
    /\ ScorerInit /\ SummaryInit /\ RankInit /\ CosineInit /\ EmbedInit /\ MonoInit
    /\ UploadInit

SpecScore == Init /\ [][ScorerNext]_vars
SpecSummary == Init /\ [][SummaryNext]_vars
\* the timer of the OpenAI client fires; the endpoint owes no answer
SpecSummaryLive == SpecSummary /\ WF_vars(AttemptTimesOut)
SpecRank == Init /\ [][RankNext]_vars
SpecTop == Init /\ [][TopNext]_vars
SpecCosine == Init /\ [][CallCosineSimilarity]_vars
SpecEmbed == Init /\ [][EmbedNext]_vars
SpecMono == Init /\ [][MonoNext]_vars
SpecUpload == Init /\ [][UploadNext]_vars
SpecAccess == Init /\ [][AccessNext]_vars
SpecN8n == Init /\ [][N8nNext]_vars
\* every await of the handler and of its callback ends: the database answers,
\* and the post to n8n has a timeout of 10 seconds
SpecUploadLive == SpecUpload /\ WF_vars(UploadNext)

Next == ScorerNext \/ SummaryNext \/ RankNext \/ TopNext \/ CallCosineSimilarity \/ EmbedNext
           \/ MonoNext \/ UploadNext \/ AccessNext \/ N8nNext
Spec == Init /\ [][Next]_vars

(***************************************************************************)
(* CLAIMS: heuristic scorer                                                *)
(***************************************************************************)

\* C1: a text with fewer than 50 words longer than 3 characters gets a
\* PlagiarismReport whose score is 0, and the upload handler reads 0 from
\* plagiarismResult.score.
C1_ShortTextGetsZeroReport ==
    (sc_pc = "scored" /\ textDefined /\ WordCount(doc) < MinSignificantWords)
        => /\ plagiarismResult.kind = "report"
           /\ plagiarismResult.score = 0
           /\ plagiarismScore = JsNumber(0)

\* C2: the score calculatePlagiarismScore reports is a number from 0 to 95,
\* whatever the text holds, the error path included.
C2_ScoreWithinCap ==
    sc_pc = "scored" => plagiarismResult.score \in 0..ScoreCap

\* C2 witness: the error path has been taken
C2_WitnessErrorPath ==
    sc_pc = "scored" /\ ~textDefined /\ plagiarismResult = ErrorReport

\* C2 witness: a scored text whose contributions add up to more than 95
C2_Witness ==
    /\ sc_pc = "scored"
    /\ textDefined
    /\ WordCount(doc) >= MinSignificantWords
    /\ RawScore(doc) > ScoreCap
    /\ plagiarismResult.score = ScoreCap

(***************************************************************************)
(* CLAIMS: generateSummary                                                 *)
(***************************************************************************)

\* C3: generateSummary raises an error, and returns no result, whenever text
\* is empty or has fewer than 50 characters.
C3_TooShortTextRaises ==
    (gs_pc = "done" /\ TooShort(gs_text)) => outcome.kind = "raised"

\* what C4 calls a reply that is not parseable JSON or lacks a required key
C4_ReplyInvalid ==
    /\ reply.kind = "content"
    /\ \/ reply.content.json # "object"
       \/ \E f \in {"topic", "academic_level", "key_themes", "research_suggestions"} :
             f \notin DOMAIN reply.content.obj

\* C4: with a credential configured, a reply that is not parseable JSON or
\* lacks a required key makes generateSummary return exactly
\* createFallbackAnalysis(text), and nothing the model wrote reaches the caller.
C4_InvalidReplyGivesFallback ==
    (gs_pc = "done" /\ apiKey /\ C4_ReplyInvalid)
        => /\ outcome = Returned(createFallbackAnalysis(service, gs_text))
           /\ \A f \in DOMAIN outcome.value : outcome.value[f].s # "model"

\* C4 witness: the model answered an object without key_themes, whose other
\* fields it had filled in, and the fallback was returned
C4_Witness ==
    /\ gs_pc = "done"
    /\ apiKey
    /\ reply.kind = "content"
    /\ reply.content.json = "object"
    /\ DOMAIN reply.content.obj = {"topic", "academic_level", "research_suggestions"}
    /\ \A f \in DOMAIN reply.content.obj : reply.content.obj[f] = Str("model")
    /\ outcome = Returned(createFallbackAnalysis(service, gs_text))

C6_NoCredentialNoRequest ==
    ~apiKey =>
        /\ requests = 0
        /\ gs_pc # "awaiting"
        /\ (gs_pc = "done" /\ ~TooShort(gs_text))
              => outcome = Returned(createFallbackAnalysis(service, gs_text))

\* C6 witness: a call on valid text without a credential has returned
C6_Witness ==
    /\ gs_pc = "done"
    /\ service = "deepseek"
    /\ ~apiKey
    /\ ~TooShort(gs_text)
    /\ outcome.kind = "returned"

\* C7: every value generateSummary returns has topic, academic_level,
\* key_themes and research_suggestions.
C7_ResultHasRequiredFields ==
    outcome.kind = "returned"
        => \A f \in {"topic", "academic_level", "key_themes", "research_suggestions"} :
              f \in DOMAIN outcome.value

\* C7 witness: a result written by the model was returned
C7_Witness ==
    /\ outcome.kind = "returned"
    /\ reply.kind = "content"
    /\ outcome.value = reply.content.obj
    /\ outcome.value.topic = Str("model")

(***************************************************************************)
(* CLAIMS: source ranker                                                   *)
(***************************************************************************)

\* C8: no match that is collected, passed to the synthesizer or persisted has
\* a stored similarity less than or equal to 0.75.
C8_StoredSimilarityAboveThreshold ==
    /\ \A i \in DOMAIN similarities : similarities[i].similarity > SimilarityThreshold
    /\ \A i \in DOMAIN suggested : suggested[i].similarity > SimilarityThreshold

\* the stored embeddings C9 calls corrupted: unparsable, non-numeric or of
\* the wrong dimensionality
C9_Corrupted(e) ==
    \/ e.json # "array"
    \/ e.elems # "number"
    \/ Len(e.v) # Len(assignmentEmbedding)

\* C9: a source whose stored embedding is corrupted is skipped and ranking
\* never raises because of it; every well-formed source is still scored.
C9_CorruptedSkippedOthersScored ==
    /\ rk_pc # "raised"
    /\ rk_pc = "done" =>
          \A i \in DOMAIN corpus :
             IF C9_Corrupted(corpus[i].embedding)
             THEN /\ \A k \in DOMAIN similarities : similarities[k].id # i
                  /\ \A k \in DOMAIN batchResult :
                        batchResult[k].id = i => batchResult[k].similarity.kind # "number"
             ELSE i \in scored

\* C10: the ranked list is in descending order of similarity, and matches of
\* equal similarity keep the order their sources have in the corpus.
C10_SortedDescendingStable ==
    (rk_mode = "upload" /\ rk_pc = "done") =>
        \A i, j \in DOMAIN similarities :
            i < j => /\ similarities[i].similarity >= similarities[j].similarity
                     /\ similarities[i].similarity = similarities[j].similarity
                           => similarities[i].id < similarities[j].id

\* C10 witness: the sort moved a later source in front of an earlier one and
\* left two matches of equal similarity in corpus order
C10_Witness ==
    /\ rk_mode = "upload"
    /\ rk_pc = "done"
    /\ \E i, j \in DOMAIN similarities :
          i < j /\ similarities[i].id > similarities[j].id
    /\ \E i, j \in DOMAIN similarities :
          /\ i < j
          /\ similarities[i].similarity = similarities[j].similarity
          /\ similarities[i].id < similarities[j].id

\* the rows of the corpus whose similarity to the assignment is above 0.75
C11_Matching ==
    {i \in DOMAIN corpus :
        AboveThreshold(cosineSimilarity(assignmentEmbedding, corpus[i].embedding))}

\* C11: at most 5 matches are passed on and persisted; they are the first 5
\* of the sorted list, and no match left out has a higher similarity than one
\* that is included.
C11_AtMostFiveTopMatches ==
    /\ Len(suggested) <= 5
    /\ (rk_mode = "upload" /\ rk_pc = "done") =>
          /\ Len(suggested) = Min(5, Cardinality(C11_Matching))
          /\ suggested = SubSeq(similarities, 1, Len(suggested))
          /\ \A k \in DOMAIN suggested : suggested[k].id \in C11_Matching
          /\ \A i \in C11_Matching :
                (\A k \in DOMAIN suggested : suggested[k].id # i)
                   => \A k \in DOMAIN suggested :
                         suggested[k].similarity
                            >= RoundTo4(cosineSimilarity(assignmentEmbedding,
                                                         corpus[i].embedding))

\* C11 witness: seven sources matched, five were kept, and a source left out
\* comes earlier in the corpus, with a lower similarity, than one kept
C11_Witness ==
    /\ rk_mode = "upload"
    /\ rk_pc = "done"
    /\ Len(similarities) = 7
    /\ Len(suggested) = 5
    /\ \E k \in DOMAIN suggested, j \in 6..7 :
          /\ similarities[j].id < suggested[k].id
          /\ similarities[j].similarity < suggested[k].similarity

(***************************************************************************)
(* CLAIMS: cosineSimilarity                                                *)
(***************************************************************************)

\* both arguments are arrays, of the same length, and not empty
C12_NonEmptySameLength ==
    /\ cs_vecA.json = "array"
    /\ cs_vecB.json = "array"
    /\ Len(cs_vecA.v) = Len(cs_vecB.v)
    /\ Len(cs_vecA.v) > 0

\* C12: cosineSimilarity raises whenever the vectors differ in length, or
\* either is undefined, or either is empty (both empty included); it returns
\* a number only for two non-empty vectors of equal length.
C12_RaisesUnlessNonEmptySameLength ==
    cs_pc = "called" =>
        IF C12_NonEmptySameLength
        THEN cs_result.kind = "number"
        ELSE cs_result.kind = "throw"

C13_AllZero(v) == \A i \in DOMAIN v : v[i] = 0

\* C13: for two non-empty vectors of equal length, cosineSimilarity returns
\* exactly 0 when at least one of them has all components zero, and no
\* returned number is the result of a division by zero.
C13_ZeroVectorGivesZero ==
    (cs_pc = "called" /\ C12_NonEmptySameLength) =>
        /\ cs_result.kind = "number"
        /\ cs_result.den # 0
        /\ (C13_AllZero(cs_vecA.v) \/ C13_AllZero(cs_vecB.v))
              => (cs_result.num = 0 /\ cs_result.den = 1)

\* C13 witness: a zero vector of three components compared with itself
C13_Witness ==
    /\ cs_pc = "called"
    /\ cs_vecA = Embedding("array", "number", <<0, 0, 0>>)
    /\ cs_vecB = cs_vecA
    /\ cs_result = Ratio(0, 1)

(***************************************************************************)
(* CLAIMS: getEmbedding                                                    *)
(***************************************************************************)

\* C14: getEmbedding rejects, and returns no vector, for every text that is
\* empty, undefined or only white space.
C14_BlankTextRejected ==
    \A i \in DOMAIN em_history :
        (~em_history[i].text.defined \/ em_history[i].text.words = <<>>)
            => /\ em_history[i].kind = "raised"
               /\ em_history[i].v = <<>>

\* C14 witness: both a white-space-only text and the empty string were
\* rejected by the placeholder
C14_Witness ==
    /\ em_service = "deepseek"
    /\ \E i, j \in DOMAIN em_history :
          /\ em_history[i].text = EmText(TRUE, TRUE, <<>>, FALSE)
          /\ em_history[i].kind = "raised"
          /\ em_history[j].text = EmText(TRUE, FALSE, <<>>, FALSE)
          /\ em_history[j].kind = "raised"

\* C15: every component of a vector the placeholder getEmbedding returns is
\* at least 0 and below 1 (0 to 99 hundredths).
C15_ComponentsInUnitInterval ==
    em_service = "deepseek" =>
        \A i \in DOMAIN em_history :
            em_history[i].kind = "vector"
                => \A k \in DOMAIN em_history[i].v : em_history[i].v[k] \in 0..99

\* C16: two calls of the placeholder getEmbedding with the same text return
\* the same vector, of length 100, whatever was called in between.
C16_SameTextSameVector ==
    em_service = "deepseek" =>
        \A i, j \in DOMAIN em_history :
            (i < j /\ em_history[i].text = em_history[j].text)
                => /\ em_history[i] = em_history[j]
                   /\ em_history[i].kind = "vector" => Len(em_history[i].v) = 100

\* C16 witness: the same text of two words was embedded before and after a
\* different text, with some component that is not 0
C16_Witness ==
    /\ em_service = "deepseek"
    /\ Len(em_history) = 3
    /\ em_history[1].text = em_history[3].text
    /\ em_history[2].text # em_history[1].text
    /\ em_history[2].kind = "vector"
    /\ em_history[3].kind = "vector"
    /\ Len(em_history[3].text.words) = 2
    /\ em_history[3].v[2] # 0

(***************************************************************************)
(* CLAIMS: heuristic scorer, continued                                     *)
(***************************************************************************)

\* C17: a text to which a further triggering indicator has been added scores
\* at least as much as it did without it.
C17_MoreIndicatorsNeverLowerScore ==
    sc_pc = "rescored" => plagiarismResult.score >= mono_before.score

\* the scored text holds "Copyright (c)-sign 2020" and "All rights reserved"
\* and no other definite indicator, citation pattern, URL or academic phrase
C20_CopyrightNoticeOnly ==
    /\ sc_pc = "scored"
    /\ textDefined
    /\ doc["copyright"] >= 1
    /\ doc["allrights"] >= 1
    /\ \A k \in FragKinds \ ({"copyright", "allrights"} \cup PlainFrags) : doc[k] = 0

\* C20 as stated: any such document gets a PlagiarismReport whose score is
\* at least 75.
C20_CopyrightScoresAtLeast75 ==
    C20_CopyrightNoticeOnly
        => (plagiarismResult.kind = "report" /\ plagiarismResult.score >= 75)

\* C20 amended: such a document gets a PlagiarismReport whose score is at
\* least 75 when it has 50 or more words longer than 3 characters; with
\* fewer, calculatePlagiarismScore returns the number 0.
C20_CopyrightScoresAtLeast75WhenLongEnough ==
    C20_CopyrightNoticeOnly
        => IF WordCount(doc) >= 50
           THEN plagiarismResult.kind = "report" /\ plagiarismResult.score >= 75
           ELSE plagiarismResult.kind = "number" /\ plagiarismResult.score = 0

\* C20 witness: the two notices and a sentence of 48 words scored exactly 75
C20_Witness ==
    /\ C20_CopyrightNoticeOnly
    /\ doc["copyright"] = 1
    /\ doc["allrights"] = 1
    /\ doc["sent48"] = 1
    /\ plagiarismResult.kind = "report"
    /\ plagiarismResult.score = 75
    /\ plagiarismResult.indicators = {"Copyright notice", "All rights reserved"}

\* the weight of each definite indicator
C22_Weight(k) ==
    CASE k = "copyright" -> 40 [] k = "allrights" -> 35 [] k = "published" -> 30
      [] k = "journal" -> 25   [] k = "volume" -> 25    [] k = "doi" -> 20
      [] k = "retrieved" -> 30 [] k = "isbn" -> 20

\* C22: a definite indicator that occurs once or several times contributes
\* its fixed weight exactly once: the reported score is the capped sum of the
\* weights of the indicators present and of the other five checks.
C22_DefiniteWeightCountedOnce ==
    (sc_pc = "scored" /\ plagiarismResult.kind = "report" /\ textDefined) =>
        plagiarismResult.score =
            Min(95, SumOver(DefiniteFrags,
                            LAMBDA k : IF doc[k] >= 1 THEN C22_Weight(k) ELSE 0)
                    + SuspiciousScore(doc) + UrlScore(doc) + VarianceScore(doc)
                    + PhraseScore(doc) + FormatScore(doc))

\* C22 witness: three copyright notices and a sentence of 48 words score 40
C22_Witness ==
    /\ sc_pc = "scored"
    /\ doc["copyright"] = 3
    /\ doc["sent48"] = 1
    /\ plagiarismResult.kind = "report"
    /\ plagiarismResult.score = 40

\* the variance of the sentence lengths of the scored text exceeds 500
C23_HighVariance ==
    SentenceCount(doc) > 0
    /\ SentenceCount(doc) * SentenceLenSumSq(doc)
          - SentenceLenSum(doc) * SentenceLenSum(doc)
       > 500 * SentenceCount(doc) * SentenceCount(doc)

\* what the checks other than the variance check add
C23_OtherChecks ==
    DefiniteScore(doc) + SuspiciousScore(doc) + UrlScore(doc) + PhraseScore(doc)
    + FormatScore(doc)

\* C23: the variance check runs from 5 qualifying sentences on: with 5 or
\* more sentences and a variance above 500 the score has 15 added, and with
\* fewer than 5 sentences it never has.
C23_VarianceFromFiveSentences ==
    (sc_pc = "scored" /\ plagiarismResult.kind = "report" /\ textDefined) =>
        plagiarismResult.score =
            Min(95, C23_OtherChecks
                    + (IF SentenceCount(doc) >= 5 /\ C23_HighVariance THEN 15 ELSE 0))

(***************************************************************************)
(* CLAIMS: uploadAssignment                                                *)
(***************************************************************************)
\* C21: every analysis produced for an upload has between 2 and 5 key
\* themes.
C21_KeyThemesTwoToFive ==
    up_keyThemes # <<>> => Len(up_keyThemes) \in 2..5

\* C24: once filePath has been assigned, every response (200, 400 for a text
\* that is empty or too short, 500) comes after a call of cleanupFile, and
\* no uploaded file is left on disk.
C24_CleanupOnEveryExit ==
    (up_filePath /\ up_response # 0) => (up_cleanups >= 1 /\ ~up_fileOnDisk)

\* C25: after the request has ended, its assignments row exists if and only
\* if its analysis_results row exists and the response was 200.
C25_AllOrNothing ==
    up_response # 0 =>
        (assignmentsRow <=> (analysisRow.exists /\ up_response = 200))

C26_InEvents(e) == \E i \in DOMAIN up_events : up_events[i] = e

\* C26: the callback sets n8n_processed, n8n_workflow_id and analyzed_at only
\* after the post to the webhook has returned; when the trigger is skipped
\* or fails the row stays as it was inserted; the response sent stays 200.
C26_WritesOnlyAfterWebhookSuccess ==
    /\ (\/ analysisRow.n8n_processed
        \/ analysisRow.n8n_workflow_id # "null"
        \/ analysisRow.analyzed_at = "set") => C26_InEvents("post returned")
    /\ (bg_pc = "done" /\ (C26_InEvents("skipped") \/ C26_InEvents("post failed"))) =>
          /\ ~analysisRow.n8n_processed
          /\ analysisRow.n8n_workflow_id = "null"
          /\ analysisRow.analyzed_at # "set"
    /\ bg_pc # "none" => up_response = 200

C26_Witness ==
    /\ bg_pc = "done"
    /\ C26_InEvents("post returned")
    /\ analysisRow.n8n_processed
    /\ analysisRow.analyzed_at = "set"
    /\ up_response = 200

\* C27: an upload that answered 200 eventually has analyzed_at set on its
\* analysis_results row, also when the trigger is skipped or fails.
C27_EventuallyAnalyzed ==
    (up_response = 200) ~> (analysisRow.analyzed_at # "null")

C28_Order ==
    <<"insert assignments", "insert analysis_results", "cleanupFile",
      "setImmediate", "respond 200">>

C28_InOrder ==
    up_response = 200 =>
        /\ Len(up_events) >= Len(C28_Order)
        /\ SubSeq(up_events, 1, Len(C28_Order)) = C28_Order
        /\ \A i \in DOMAIN up_events :
              up_events[i] = "axios.post" => i > Len(C28_Order)

\* C28 as stated: a successful upload does the two inserts, cleanupFile, the
\* scheduling and the response in this order, and the post to the webhook is
\* issued after the file has been deleted.
C28_PostAfterFileDeleted ==
    /\ C28_InOrder
    /\ C26_InEvents("axios.post") => ~up_fileOnDisk

\* C28 amended: the same order, and the post to the webhook is issued after
\* the one call of cleanupFile, which has deleted the file unless unlink
\* failed.
C28_PostAfterCleanupCalled ==
    /\ C28_InOrder
    /\ C26_InEvents("axios.post") =>
          /\ up_cleanups = 1
          /\ \E i, j \in DOMAIN up_events :
                i < j /\ up_events[i] = "cleanupFile" /\ up_events[j] = "axios.post"

C28_Witness ==
    /\ up_response = 200
    /\ C26_InEvents("axios.post")
    /\ up_cleanups = 1

(***************************************************************************)
(* CLAIMS: access to the assignment of another student                     *)
(***************************************************************************)
\* the last request was made by one student for an assignment of another
C29_CrossStudent ==
    /\ ac_last.route # "none"
    /\ ac_before.owner \notin {"none", ac_last.student}

\* C29 as stated: a request of A for the analysis, the status or the
\* deletion of an assignment of B answers 404, shows none of B's data and
\* leaves B's rows as they were.
C29_CrossStudentAnswers404 ==
    C29_CrossStudent =>
        /\ ac_last.status = 404
        /\ ac_last.data = "none"
        /\ ac_last.after = ac_before

\* C29 amended: such a request answers 404, or 500 when the query itself
\* ended with an error of the database; it never shows B's data and leaves
\* B's rows as they were.
C29_CrossStudentNeverServed ==
    C29_CrossStudent =>
        /\ ac_last.status = (IF ac_last.answered THEN 404 ELSE 500)
        /\ ac_last.data = "none"
        /\ ac_last.after = ac_before

C29_Witness ==
    /\ C29_CrossStudent
    /\ ac_last.route = "delete"
    /\ ac_last.status = 404
    /\ ac_last.after.analyzed_at = "set"

(***************************************************************************)
(* CLAIMS: N8NService.triggerFullWorkflow                                  *)
(***************************************************************************)
C30_InLog(e) == \E i \in DOMAIN n8_log : n8_log[i] = e

C30_Count(e) == Cardinality({i \in DOMAIN n8_log : n8_log[i] = e})

C30_Ended == n8_pc = "idle" /\ n8_calls > 0

C30_GracefulFailure == [kind |-> "returned", success |-> FALSE, skipped |-> TRUE]

\* triggerFullWorkflow does not reject; when the integration is disabled it
\* returns {success: true, skipped: true} and neither posts nor writes
C30_NeverRejectsAndSkipsWhenDisabled ==
    /\ n8_result.kind # "rejected"
    /\ (C30_Ended /\ ~n8_enabled) =>
          /\ n8_result = [kind |-> "returned", success |-> TRUE, skipped |-> TRUE]
          /\ n8_log = <<"disabled">>
          /\ n8_status = "null"
    /\ C30_Count("set failed") + C30_Count("set failed failed") <= 1

C18_AtMostOneRequest == requests <= 1

\* C18 amended: generateSummary makes one model call; deepseekService sends
\* at most one request for it, aiService at most three (the first attempt
\* and the two retries of its client).
C18_AtMostOneCallThreeAttempts ==
    requests <= (IF service = "openai" THEN 3 ELSE 1)

\* C18 witness: the OpenAI client sent the request three times, no attempt
\* was answered, and the fallback was returned
C18_Witness ==
    /\ service = "openai"
    /\ requests = 3
    /\ gs_pc = "done"
    /\ reply = NoReply
    /\ outcome = Returned(createFallbackAnalysis(service, gs_text))

\* C19: when the endpoint never answers, every generateSummary call that
\* waits for it ends by returning a result (the fallback, once the timeout
\* has expired).
C19_ReturnsThoughEndpointSilent ==
    [](reply = NoReply) =>
        ((gs_pc = "awaiting") ~> (gs_pc = "done" /\ outcome.kind = "returned"))

====
